---- MODULE Spec2Model ----
(***************************************************************************)
(* A model of the number parser (src/src/number_parser.c and its header,   *)
(* src/unnamed/part_000): the accumulator struct, its six operations and   *)
(* the arithmetic they rest on (uint64_t with wrap-around, int16_t fields, *)
(* IEEE-754 binary64 with round-to-nearest-even).                          *)
(***************************************************************************)
EXTENDS Integers, Sequences, FiniteSets, TLC

(***************************************************************************)
(* Unsigned integers of any width.  TLC's own integers are 32 bits wide,   *)
(* so a uint64_t and the significand of a double are kept as little-endian *)
(* sequences of 15-bit limbs without leading zero limbs (<<>> is 0).       *)
(***************************************************************************)
LIMB_BITS == 15
LIMB == 2^LIMB_BITS

Pow2[k \in 0..30] == IF k = 0 THEN 1 ELSE 2 * Pow2[k - 1]

RECURSIVE BNorm(_)
BNorm(a) ==
    IF a = <<>> THEN a
    ELSE IF a[Len(a)] = 0 THEN BNorm(SubSeq(a, 1, Len(a) - 1))
    ELSE a

RECURSIVE BNat(_)
BNat(n) == IF n = 0 THEN <<>> ELSE <<n % LIMB>> \o BNat(n \div LIMB)

BLimb(a, i) == IF i <= Len(a) THEN a[i] ELSE 0

RECURSIVE BCmpFrom(_, _, _)
BCmpFrom(a, b, i) ==
    IF i = 0 THEN 0
    ELSE IF a[i] > b[i] THEN 1
    ELSE IF a[i] < b[i] THEN -1
    ELSE BCmpFrom(a, b, i - 1)

\* -1, 0, 1 as a < b, a = b, a > b
BCmp(a, b) ==
    IF Len(a) > Len(b) THEN 1
    ELSE IF Len(a) < Len(b) THEN -1
    ELSE BCmpFrom(a, b, Len(a))

RECURSIVE BAddFrom(_, _, _, _)
BAddFrom(a, b, i, c) ==
    IF i > Len(a) /\ i > Len(b) THEN (IF c = 0 THEN <<>> ELSE <<c>>)
    ELSE LET s == BLimb(a, i) + BLimb(b, i) + c
         IN  <<s % LIMB>> \o BAddFrom(a, b, i + 1, s \div LIMB)

BAdd(a, b) == BAddFrom(a, b, 1, 0)

RECURSIVE BSubFrom(_, _, _, _)
BSubFrom(a, b, i, br) ==
    IF i > Len(a) THEN <<>>
    ELSE LET s == a[i] - BLimb(b, i) - br
         IN  IF s < 0 THEN <<s + LIMB>> \o BSubFrom(a, b, i + 1, 1)
             ELSE <<s>> \o BSubFrom(a, b, i + 1, 0)

\* a - b for a >= b
BSub(a, b) == BNorm(BSubFrom(a, b, 1, 0))

RECURSIVE BMulSmallFrom(_, _, _, _)
BMulSmallFrom(a, k, i, c) ==
    IF i > Len(a) THEN BNat(c)
    ELSE LET s == a[i] * k + c
         IN  <<s % LIMB>> \o BMulSmallFrom(a, k, i + 1, s \div LIMB)

\* a * k for 0 <= k < LIMB
BMulSmall(a, k) == IF k = 0 \/ a = <<>> THEN <<>> ELSE BMulSmallFrom(a, k, 1, 0)

BShlLimbs(a, n) == IF a = <<>> THEN a ELSE [i \in 1..n |-> 0] \o a

RECURSIVE BMulFrom(_, _, _)
BMulFrom(a, b, i) ==
    IF i > Len(b) THEN <<>>
    ELSE BAdd(BMulSmall(a, b[i]), BShlLimbs(BMulFrom(a, b, i + 1), 1))

BMul(a, b) == BMulFrom(a, b, 1)

RECURSIVE BitLenSmall(_)
BitLenSmall(x) == IF x = 0 THEN 0 ELSE 1 + BitLenSmall(x \div 2)

BBitLen(a) ==
    IF a = <<>> THEN 0 ELSE (Len(a) - 1) * LIMB_BITS + BitLenSmall(a[Len(a)])

\* a * 2^n
BShl(a, n) == BShlLimbs(BMulSmall(a, Pow2[n % LIMB_BITS]), n \div LIMB_BITS)

\* floor(a / 2^n)
BShr(a, n) ==
    LET l == n \div LIMB_BITS
        r == n % LIMB_BITS
        t == IF l >= Len(a) THEN <<>> ELSE SubSeq(a, l + 1, Len(a))
    IN  BNorm([i \in 1..Len(t) |->
                 (t[i] \div Pow2[r]) + (BLimb(t, i + 1) % Pow2[r]) * Pow2[LIMB_BITS - r]])

\* a mod 2^n
BLow(a, n) ==
    LET l == n \div LIMB_BITS
        r == n % LIMB_BITS
    IN  IF Len(a) <= l THEN a
        ELSE BNorm(SubSeq(a, 1, l) \o <<a[l + 1] % Pow2[r]>>)

BPow2(n) == BShl(<<1>>, n)

BOdd(a) == a # <<>> /\ a[1] % 2 = 1

\* the largest q <= qhat with b * q <= r
RECURSIVE BFixQ(_, _, _)
BFixQ(b, r, qhat) ==
    IF BCmp(BMulSmall(b, qhat), r) > 0 THEN BFixQ(b, r, qhat - 1) ELSE qhat

\* long division of a by b (top limb of b >= LIMB/2), limb i of a downwards;
\* qr is <<quotient limbs so far, most significant first; remainder>>
RECURSIVE BDivFrom(_, _, _, _, _)
BDivFrom(a, b, i, q, r) ==
    IF i = 0 THEN <<q, r>>
    ELSE LET n  == Len(b)
             r1 == BNorm(<<a[i]>> \o r)
             est == (BLimb(r1, n + 1) * LIMB + BLimb(r1, n)) \div b[n]
             qhat == IF est > LIMB - 1 THEN LIMB - 1 ELSE est
             qd == IF Len(r1) < n THEN 0 ELSE BFixQ(b, r1, qhat)
         IN  BDivFrom(a, b, i - 1, <<qd>> \o q, BSub(r1, BMulSmall(b, qd)))

\* short division of a by one limb d > 0, limb i of a downwards; q holds the
\* quotient limbs so far and r the remainder
RECURSIVE BDivSmallFrom(_, _, _, _, _)
BDivSmallFrom(a, d, i, q, r) ==
    IF i = 0 THEN <<BNorm(q), BNat(r)>>
    ELSE BDivSmallFrom(a, d, i - 1, <<(r * LIMB + a[i]) \div d>> \o q,
                       (r * LIMB + a[i]) % d)

\* <<floor(a / b), a mod b>> for b > 0
BDivMod(a, b) ==
    IF Len(b) = 1 THEN BDivSmallFrom(a, b[1], Len(a), <<>>, 0) ELSE
    LET sh == LIMB_BITS - BitLenSmall(b[Len(b)])
        as == BShl(a, sh)
        qr == BDivFrom(as, BShl(b, sh), Len(as), <<>>, <<>>)
    IN  <<BNorm(qr[1]), BShr(qr[2], sh)>>

(***************************************************************************)
(* IEEE-754 binary64, round-to-nearest-even (the C "double" of fval).      *)
(* A double is [k, s, m, e]: kind "fin" (the value (-1)^s * m * 2^e, with  *)
(* m = 0 and e = 0 for a zero, 2^52 <= m < 2^53 for a normal number and    *)
(* m < 2^52, e = -1074 for a subnormal one), "inf" or "nan".               *)
(***************************************************************************)
DBL_MANT_DIG == 53
DBL_MAX_EXP == 1024
DBL_MIN_EXP == -1021
\* exponent of the last bit of a subnormal number
DBL_MIN_LSB == DBL_MIN_EXP - DBL_MANT_DIG

DZero(s) == [k |-> "fin", s |-> s, m |-> <<>>, e |-> 0]
DInf(s) == [k |-> "inf", s |-> s, m |-> <<>>, e |-> 0]
\* the default NaN of an invalid operation has its sign bit set on x86-64
DNaN == [k |-> "nan", s |-> 1, m |-> <<>>, e |-> 0]

DIsZero(x) == x.k = "fin" /\ x.m = <<>>

\* (-1)^s * m * 2^e with m of at most 53 bits: overflow gives infinity
DPack(s, m, e) ==
    IF m = <<>> THEN DZero(s)
    ELSE IF e + BBitLen(m) > DBL_MAX_EXP THEN DInf(s)
    ELSE [k |-> "fin", s |-> s, m |-> m, e |-> e]

\* the double nearest to (-1)^s * (M + f) * 2^E, ties to even, where M > 0 and
\* 0 < f < 1 if sticky, f = 0 otherwise
DRound(s, M, E, sticky) ==
    LET L  == BBitLen(M)
        e1 == IF E + L - DBL_MANT_DIG > DBL_MIN_LSB
              THEN E + L - DBL_MANT_DIG ELSE DBL_MIN_LSB
        sh == e1 - E
    IN  IF sh <= 0 THEN DPack(s, BShl(M, -sh), e1)
        ELSE IF sh > L + 1 THEN DZero(s)
        ELSE LET q  == BShr(M, sh)
                 c  == BCmp(BLow(M, sh), BPow2(sh - 1))
                 up == c > 0 \/ (c = 0 /\ (sticky \/ BOdd(q)))
                 q1 == IF up THEN BAdd(q, <<1>>) ELSE q
             IN  IF BBitLen(q1) > DBL_MANT_DIG THEN DPack(s, BShr(q1, 1), e1 + 1)
                 ELSE DPack(s, q1, e1)

\* (double) of an unsigned integer
DFromNat(M) == IF M = <<>> THEN DZero(0) ELSE DRound(0, M, 0, FALSE)

\* (double) of an int >= 0
DFromInt(i) == DFromNat(BNat(i))

\* -x
DNeg(x) == [x EXCEPT !.s = 1 - x.s]

\* x * y
DMul(x, y) ==
    LET s == (x.s + y.s) % 2
    IN  IF x.k = "nan" THEN x
        ELSE IF y.k = "nan" THEN y
        ELSE IF x.k = "inf" \/ y.k = "inf"
             THEN (IF DIsZero(x) \/ DIsZero(y) THEN DNaN ELSE DInf(s))
        ELSE IF x.m = <<>> \/ y.m = <<>> THEN DZero(s)
        ELSE DRound(s, BMul(x.m, y.m), x.e + y.e, FALSE)

\* x / y
DDiv(x, y) ==
    LET s == (x.s + y.s) % 2
    IN  IF x.k = "nan" THEN x
        ELSE IF y.k = "nan" THEN y
        ELSE IF x.k = "inf" THEN (IF y.k = "inf" THEN DNaN ELSE DInf(s))
        ELSE IF y.k = "inf" THEN DZero(s)
        ELSE IF y.m = <<>> THEN (IF x.m = <<>> THEN DNaN ELSE DInf(s))
        ELSE IF x.m = <<>> THEN DZero(s)
        ELSE LET sh == DBL_MANT_DIG + 2 + BBitLen(y.m) - BBitLen(x.m)
                 qr == BDivMod(BShl(x.m, sh), y.m)
             IN  DRound(s, qr[1], x.e - y.e - sh, qr[2] # <<>>)

\* x + y for finite non-zero x, y with x.e >= y.e
DAddOrdered(x, y) ==
    IF x.e - y.e > DBL_MANT_DIG + 11 THEN x
    ELSE LET a == BShl(x.m, x.e - y.e)
             c == BCmp(a, y.m)
         IN  IF x.s = y.s THEN DRound(x.s, BAdd(a, y.m), y.e, FALSE)
             ELSE IF c = 0 THEN DZero(0)
             ELSE IF c > 0 THEN DRound(x.s, BSub(a, y.m), y.e, FALSE)
             ELSE DRound(y.s, BSub(y.m, a), y.e, FALSE)

\* x + y
DAdd(x, y) ==
    IF x.k = "nan" THEN x
    ELSE IF y.k = "nan" THEN y
    ELSE IF x.k = "inf"
         THEN (IF y.k = "inf" /\ y.s # x.s THEN DNaN ELSE x)
    ELSE IF y.k = "inf" THEN y
    ELSE IF x.m = <<>> /\ y.m = <<>> THEN DZero(IF x.s = y.s THEN x.s ELSE 0)
    ELSE IF x.m = <<>> THEN y
    ELSE IF y.m = <<>> THEN x
    ELSE IF x.e >= y.e THEN DAddOrdered(x, y)
    ELSE DAddOrdered(y, x)

\* the 64 bits of a double, read as a uint64_t through the union
DBits(x) ==
    LET sgn == IF x.s = 1 THEN BPow2(63) ELSE <<>>
        top == BShl(BNat(2 * DBL_MAX_EXP - 1), DBL_MANT_DIG - 1)
    IN  IF x.k = "inf" THEN BAdd(sgn, top)
        ELSE IF x.k = "nan" THEN BAdd(sgn, BAdd(top, BPow2(DBL_MANT_DIG - 2)))
        ELSE IF BBitLen(x.m) = DBL_MANT_DIG
             THEN BAdd(sgn, BAdd(BShl(BNat(x.e - DBL_MIN_LSB), DBL_MANT_DIG - 1), x.m))
        ELSE BAdd(sgn, x.m)

\* a small unsigned integer as a TLC integer
RECURSIVE BToIntFrom(_, _)
BToIntFrom(a, i) == IF i > Len(a) THEN 0 ELSE a[i] + LIMB * BToIntFrom(a, i + 1)

BToInt(a) == BToIntFrom(a, 1)

\* the double whose 64 bits are the uint64_t b (the union read the other way)
DFromBits(b) ==
    LET s  == IF BBitLen(b) = 64 THEN 1 ELSE 0
        ex == BToInt(BShr(BLow(b, 63), DBL_MANT_DIG - 1))
        fr == BLow(b, DBL_MANT_DIG - 1)
    IN  IF ex = 2 * DBL_MAX_EXP - 1
        THEN (IF fr = <<>> THEN DInf(s) ELSE [k |-> "nan", s |-> s, m |-> <<>>, e |-> 0])
        ELSE IF ex = 0
        THEN (IF fr = <<>> THEN DZero(s)
              ELSE [k |-> "fin", s |-> s, m |-> fr, e |-> DBL_MIN_LSB])
        ELSE [k |-> "fin", s |-> s, m |-> BAdd(fr, BPow2(DBL_MANT_DIG - 1)),
              e |-> ex - 1 + DBL_MIN_LSB]

(***************************************************************************)
(* The accumulator: struct number_parser.  The anonymous union of ival,    *)
(* uval and fval is the field val, which holds what was last written: a    *)
(* uint64_t ([k |-> "u64", m |-> the integer]) or a double.  Reading the   *)
(* other member reinterprets the 64 bits.                                  *)
(***************************************************************************)
INT16_MAX == 32767
UINT64_BITS == 64

\* <float.h> of an IEEE-754 binary64 platform; the header includes <float.h>
\* before its #ifndef DBL_MAX_10_EXP fallback, so the fallback is never used
DBL_MIN_10_EXP == -307

MAX_INT == BPow2(UINT64_BITS - 1)
MAX_POS_INT == BSub(MAX_INT, <<1>>)
MAX_EXP == -DBL_MIN_10_EXP
MAX_LEN == INT16_MAX

U64(m) == [k |-> "u64", s |-> 0, m |-> m, e |-> 0]

\* conversion of an int to uint64_t, and uint64_t arithmetic: modulo 2^64
ToU64(x) == BLow(x, UINT64_BITS)

\* conversion of an int to int16_t (modulo 2^16 into [-32768, 32767])
ToInt16(x) == ((x + INT16_MAX + 1) % (2 * (INT16_MAX + 1))) - (INT16_MAX + 1)

uval(parser) == IF parser.val.k = "u64" THEN parser.val.m ELSE DBits(parser.val)

fval(parser) == IF parser.val.k = "u64" THEN DFromBits(parser.val.m) ELSE parser.val

\* ival as sign and magnitude: the two's complement reading of the 64 bits
ival(parser) ==
    LET u == uval(parser)
    IN  IF BCmp(u, MAX_INT) >= 0
        THEN [neg |-> TRUE, mag |-> BSub(BPow2(UINT64_BITS), u)]
        ELSE [neg |-> FALSE, mag |-> u]

number_parser_init(base) ==
    [int_len |-> 0, rad_off |-> -1, exp_val |-> 0, base |-> base,
     sign |-> 0, exp_sign |-> 0, is_float |-> 0, has_exp |-> 0, was_int |-> 0,
     val |-> U64(<<>>)]

convert_to_float(parser) ==
    IF parser.is_float = 0
    THEN [parser EXCEPT !.is_float = 1, !.val = DFromNat(uval(parser))]
    ELSE parser

\* no check for room before the multiplication
add_digit_room_none(parser) == parser

\* lines 42-47: promote if there is no room for another digit
add_digit_room(parser) ==
    IF parser.is_float = 0
       /\ BCmp(uval(parser), BDivMod(MAX_INT, BNat(parser.base))[1]) > 0
    THEN convert_to_float(parser)
    ELSE parser

\* add_digit_append with uval >= MAX_INT - digit
add_digit_append_inclusive(parser, digit) ==
    IF parser.is_float = 0
    THEN LET u == ToU64(BMulSmall(uval(parser), parser.base))
             p1 == [parser EXCEPT !.val = U64(u)]
         IN  IF BCmp(u, ToU64(BSub(MAX_INT, BNat(digit)))) >= 0
             THEN LET p2 == convert_to_float(p1)
                  IN  [p2 EXCEPT !.val = DAdd(fval(p2), DFromInt(digit))]
             ELSE [p1 EXCEPT !.val = U64(ToU64(BAdd(u, BNat(digit))))]
    ELSE [parser EXCEPT !.val =
              DAdd(DMul(fval(parser), DFromInt(parser.base)), DFromInt(digit))]

\* lines 49-64: append the digit in the integer or in the floating-point slot
add_digit_append(parser, digit) ==
    IF parser.is_float = 0
    THEN LET u == ToU64(BMulSmall(uval(parser), parser.base))
             p1 == [parser EXCEPT !.val = U64(u)]
         IN  IF BCmp(u, ToU64(BSub(MAX_INT, BNat(digit)))) > 0
             THEN LET p2 == convert_to_float(p1)
                  IN  [p2 EXCEPT !.val = DAdd(fval(p2), DFromInt(digit))]
             ELSE [p1 EXCEPT !.val = U64(ToU64(BAdd(u, BNat(digit))))]
    ELSE [parser EXCEPT !.val =
              DAdd(DMul(fval(parser), DFromInt(parser.base)), DFromInt(digit))]

\* number_parser_add_digit that does not count the digit that promotes
add_digit_skip_count(parser, digit) ==
    IF parser.int_len >= MAX_LEN THEN parser
    ELSE LET p == add_digit_append(add_digit_room(parser), digit)
         IN  IF p.is_float # parser.is_float THEN p
             ELSE [p EXCEPT !.int_len = p.int_len + 1]

\* number_parser_add_digit without the length check of lines 39-41
add_digit_uncapped(parser, digit) ==
    LET p == add_digit_append(add_digit_room(parser), digit)
    IN  [p EXCEPT !.int_len = p.int_len + 1]

number_parser_add_digit(parser, digit) ==
    IF parser.int_len >= MAX_LEN THEN parser
    ELSE LET p == add_digit_append(add_digit_room(parser), digit)
         IN  [p EXCEPT !.int_len = p.int_len + 1]

\* number_parser_add_exp_digit without the check of line 71
add_exp_digit_unguarded(parser, digit) ==
    [parser EXCEPT !.exp_val = ToInt16(parser.exp_val * parser.base + digit),
                   !.has_exp = 1]

\* number_parser_add_exp_digit without has_exp = 1
add_exp_digit_no_flag(parser, digit) ==
    IF parser.exp_val < MAX_EXP
    THEN [parser EXCEPT !.exp_val = ToInt16(parser.exp_val * parser.base + digit)]
    ELSE parser

number_parser_add_exp_digit(parser, digit) ==
    IF parser.exp_val < MAX_EXP
    THEN [parser EXCEPT !.exp_val = ToInt16(parser.exp_val * parser.base + digit),
                        !.has_exp = 1]
    ELSE parser

\* number_parser_set_rad_point with the offset of the next digit
set_rad_point_next(parser) == [parser EXCEPT !.rad_off = parser.int_len + 1]

\* number_parser_set_rad_point that keeps a radix point already set
set_rad_point_once(parser) ==
    IF parser.rad_off < 0 THEN [parser EXCEPT !.rad_off = parser.int_len] ELSE parser

number_parser_set_rad_point(parser) == [parser EXCEPT !.rad_off = parser.int_len]

\* number_parser_set_neg toggling the sign: sign ^= (negative != 0)
set_neg_toggle(parser, negative) ==
    [parser EXCEPT !.sign = IF negative # 0 THEN 1 - parser.sign ELSE parser.sign]

number_parser_set_neg(parser, negative) ==
    [parser EXCEPT !.sign = IF negative # 0 THEN 1 ELSE 0]

number_parser_set_exp_neg(parser, negative) ==
    [parser EXCEPT !.exp_sign = IF negative # 0 THEN 1 ELSE 0]

\* end_exponent without the fractional digits of lines 95-97
end_exponent_no_fraction(parser) ==
    IF parser.exp_sign = 1 THEN -parser.exp_val ELSE parser.exp_val

\* lines 87-97: the effective exponent, before its sign is split off
end_exponent(parser) ==
    LET n0 == IF parser.exp_sign = 1 THEN -parser.exp_val ELSE parser.exp_val
    IN  IF parser.rad_off >= 0 THEN n0 - (parser.int_len - parser.rad_off) ELSE n0

\* the loop with d *= d before e *= d
RECURSIVE end_power_square_first(_, _, _)
end_power_square_first(n, d, e) ==
    IF d.s > 1 \/ e.s > 1 \/ n = 0 THEN e
    ELSE end_power_square_first(n \div 2, DMul(d, d),
                                IF n % 2 = 1 THEN DMul(e, DMul(d, d)) ELSE e)

\* lines 104-111: while (n) { if (n & 1) e *= d; n >>= 1; d *= d; }
\* (d and e are read first, so that each iteration is evaluated before the
\* next one starts: a sign bit is never above 1)
RECURSIVE end_power(_, _, _)
end_power(n, d, e) ==
    IF d.s > 1 \/ e.s > 1 \/ n = 0 THEN e
    ELSE end_power(n \div 2, DMul(d, d), IF n % 2 = 1 THEN DMul(e, d) ELSE e)

\* end_promote with uval >= MAX_POS_INT
end_promote_inclusive(parser) ==
    IF (parser.sign = 0 /\ BCmp(uval(parser), MAX_POS_INT) >= 0)
       \/ parser.has_exp = 1 \/ parser.rad_off >= 0
    THEN convert_to_float(parser)
    ELSE parser

\* end_promote with uval > MAX_INT
end_promote_unsigned_limit(parser) ==
    IF (parser.sign = 0 /\ BCmp(uval(parser), MAX_INT) > 0)
       \/ parser.has_exp = 1 \/ parser.rad_off >= 0
    THEN convert_to_float(parser)
    ELSE parser

\* end_promote assigning is_float instead of only setting it
end_promote_redecide(parser) ==
    IF (parser.sign = 0 /\ BCmp(uval(parser), MAX_POS_INT) > 0)
       \/ parser.has_exp = 1 \/ parser.rad_off >= 0
    THEN convert_to_float(parser)
    ELSE [parser EXCEPT !.is_float = 0]

\* lines 82-84: the promotion decided at the end
end_promote(parser) ==
    IF (parser.sign = 0 /\ BCmp(uval(parser), MAX_POS_INT) > 0)
       \/ parser.has_exp = 1 \/ parser.rad_off >= 0
    THEN convert_to_float(parser)
    ELSE parser

\* end_float with the division flag kept in a local variable
end_float_local_flag(parser) ==
    LET n  == end_exponent(parser)
        e  == end_power(IF n < 0 THEN -n ELSE n, DFromInt(parser.base), DFromInt(1))
        f  == IF parser.sign = 1 THEN DNeg(fval(parser)) ELSE fval(parser)
    IN  [parser EXCEPT !.val = IF n < 0 \/ parser.exp_sign = 1
                               THEN DDiv(f, e) ELSE DMul(f, e)]

\* lines 86-123: the floating-point result
end_float(parser) ==
    LET n  == end_exponent(parser)
        p1 == IF n < 0 THEN [parser EXCEPT !.exp_sign = 1] ELSE parser
        e  == end_power(IF n < 0 THEN -n ELSE n, DFromInt(parser.base), DFromInt(1))
        f  == IF p1.sign = 1 THEN DNeg(fval(p1)) ELSE fval(p1)
    IN  [p1 EXCEPT !.val = IF p1.exp_sign = 1 THEN DDiv(f, e) ELSE DMul(f, e)]

\* end_int negating whatever the sign
end_int_always(parser) ==
    [parser EXCEPT !.val = U64(ToU64(BSub(BPow2(UINT64_BITS), uval(parser))))]

\* lines 124-126: ival = -ival, the negation of a 64-bit two's complement
\* integer (INT64_MIN is its own negation)
end_int(parser) ==
    IF parser.sign = 1
    THEN [parser EXCEPT !.val = U64(ToU64(BSub(BPow2(UINT64_BITS), uval(parser))))]
    ELSE parser

\* the accumulator after number_parser_end; the call returns its is_float
number_parser_end(parser) ==
    LET p == end_promote(parser)
    IN  IF p.is_float = 1 THEN end_float(p) ELSE end_int(p)

\* a caller's loop: n consecutive number_parser_add_digit(parser, digit) calls
\* (split in halves, and reading parser first, so that the evaluation stays
\* shallow: int_len is never negative)
RECURSIVE AddDigitRun(_, _, _)
AddDigitRun(parser, digit, n) ==
    IF parser.int_len < 0 \/ n = 0 THEN parser
    ELSE IF n = 1 THEN number_parser_add_digit(parser, digit)
    ELSE AddDigitRun(AddDigitRun(parser, digit, n \div 2), digit, n - n \div 2)

(***************************************************************************)
(* The caller.  The parser does not read text: an external tokenizer calls *)
(* it.  An input is what that tokenizer has to deliver for one number: the *)
(* base, the mantissa stream (digits and radix points, in order), the      *)
(* exponent digits (in order) and the arguments of the set_neg and         *)
(* set_exp_neg calls.  The four streams are interleaved in every possible  *)
(* way, and number_parser_end may be called at any point.                  *)
(***************************************************************************)
Dg(ds) == [i \in 1..Len(ds) |-> [op |-> "digit", d |-> ds[i]]]
Rad == <<[op |-> "rad", d |-> 0]>>
\* a run of n leading zeros
Zeros(n) == <<[op |-> "zeros", d |-> n]>>

Input(base, mant, exps, negs, xnegs) ==
    [base |-> base, mant |-> mant, exps |-> exps, negs |-> negs, xnegs |-> xnegs]

\* the digits of v > 0 in a base, most significant first
RECURSIVE ToDigits(_, _)
ToDigits(v, base) ==
    IF v = <<>> THEN <<>>
    ELSE LET qr == BDivMod(v, BNat(base))
         IN  ToDigits(qr[1], base) \o <<BToInt(qr[2])>>

\* around the largest integers: 2^63 - 1 and a digit more, 2^63 (times the
\* base), 2^63 + 1 (times the base and base - 1)
BoundaryInputs(b) ==
    << Input(b, Dg(ToDigits(MAX_POS_INT, b) \o <<1>>), <<>>, <<1>>, <<>>),
       Input(b, Dg(ToDigits(MAX_INT, b) \o <<0>>), <<>>, <<1>>, <<>>),
       Input(b, Dg(ToDigits(BAdd(MAX_INT, <<1>>), b) \o <<b - 1>>), <<>>, <<1>>, <<>>) >>

MixedInputs ==
    << \* the repository's test: -12.3e4
       Input(10, Dg(<<1, 2>>) \o Rad \o Dg(<<3>>), <<4>>, <<1>>, <<>>),
       \* 0.1 and 1e-1
       Input(10, Dg(<<0>>) \o Rad \o Dg(<<1>>), <<>>, <<>>, <<>>),
       Input(10, Dg(<<1>>), <<1>>, <<>>, <<1>>),
       \* 0e999 and 0e-999
       Input(10, Dg(<<0>>), <<9, 9, 9>>, <<1>>, <<1>>),
       \* f.8 with a second radix point, signs written twice
       Input(16, Dg(<<15>>) \o Rad \o Dg(<<8>>) \o Rad, <<1, 2>>, <<1, 0>>, <<2, 0>>),
       \* exponents that do not fit an int16_t: 1 * 255^2 + 2 * 255 is -1
       Input(255, Dg(<<1>>), <<1, 2, 0>>, <<>>, <<1>>),
       Input(255, Rad \o Dg(<<254>>), <<1, 50, 7, 3>>, <<>>, <<>>),
       \* a mantissa a double cannot hold exactly, and 2^64
       Input(10, Dg(ToDigits(BAdd(BPow2(DBL_MANT_DIG), <<1>>), 10)) \o Rad, <<>>, <<1>>, <<>>),
       Input(10, Dg(ToDigits(BPow2(UINT64_BITS), 10)), <<>>, <<>>, <<>>),
       Input(2, Dg(<<1, 0, 1>>) \o Rad \o Dg(<<1>>), <<1, 0, 1>>, <<>>, <<1>>),
       \* 3.14159e-5
       Input(10, Dg(<<3>>) \o Rad \o Dg(<<1, 4, 1, 5, 9>>), <<5>>, <<>>, <<1>>),
       \* 1e3071: an exponent digit at exp_val = 307; 1e25: 10^25 is no double
       Input(10, Dg(<<1>>), <<3, 0, 7, 1>>, <<>>, <<>>),
       Input(10, Dg(<<1>>), <<2, 5>>, <<>>, <<>>) >>

\* more digits than int_len can count
CapInputs ==
    << Input(10, Zeros(MAX_LEN - 1) \o Dg(<<1, 5>>), <<>>, <<>>, <<>>),
       Input(10, Zeros(MAX_LEN - 2) \o Dg(<<1>>) \o Rad \o Dg(<<2, 3>>), <<>>, <<>>, <<>>),
       Input(255, Zeros(MAX_LEN) \o Dg(ToDigits(BAdd(MAX_INT, <<1>>), 255)), <<>>, <<>>, <<>>) >>

Inputs ==
    BoundaryInputs(2) \o BoundaryInputs(10) \o BoundaryInputs(16)
        \o BoundaryInputs(255) \o MixedInputs \o CapInputs

\* number_parser_end calls in one run, and accumulation calls after the first
MaxEnd == 2
MaxPost == 1

VARIABLES
    parser,   \* the struct number_parser
    ret,      \* what the last number_parser_end returned (-1: not called)
    inp,      \* the input being delivered (an element of Inputs)
    pm,       \* mantissa stream events delivered
    pe,       \* exponent digits delivered
    ps,       \* set_neg calls made
    px,       \* set_exp_neg calls made
    nend,     \* number_parser_end calls made
    post,     \* accumulation calls made after the first number_parser_end
    lastEnd,  \* the last call was number_parser_end
    ndig,     \* number_parser_add_digit calls made
    dval      \* the integer that the digits passed to those calls denote

vars == <<parser, ret, inp, pm, pe, ps, px, nend, post, lastEnd, ndig, dval>>

Init ==
    /\ inp \in {Inputs[i] : i \in 1..Len(Inputs)}
    /\ parser = number_parser_init(inp.base)
    /\ ret = -1
    /\ pm = 0 /\ pe = 0 /\ ps = 0 /\ px = 0
    /\ nend = 0 /\ post = 0
    /\ lastEnd = FALSE
    /\ ndig = 0
    /\ dval = <<>>

\* an accumulation call: bounded in number once number_parser_end was called
Accumulate ==
    /\ nend = 0 \/ post < MaxPost
    /\ post' = IF nend > 0 THEN post + 1 ELSE post
    /\ lastEnd' = FALSE
    /\ UNCHANGED <<ret, inp, nend>>

NextMant == inp.mant[pm + 1]

AddDigit ==
    /\ pm < Len(inp.mant)
    /\ NextMant.op = "digit"
    /\ Accumulate
    /\ parser' = number_parser_add_digit(parser, NextMant.d)
    /\ pm' = pm + 1
    /\ ndig' = ndig + 1
    /\ dval' = BAdd(BMulSmall(dval, inp.base), BNat(NextMant.d))
    /\ UNCHANGED <<pe, ps, px>>

\* leading zeros, before the first number_parser_end: the digits so far
\* denote 0, and so do the zeros
AddLeadingZeros ==
    /\ pm < Len(inp.mant)
    /\ NextMant.op = "zeros"
    /\ nend = 0
    /\ Accumulate
    /\ parser' = AddDigitRun(parser, 0, NextMant.d)
    /\ pm' = pm + 1
    /\ ndig' = ndig + NextMant.d
    /\ UNCHANGED <<pe, ps, px, dval>>

SetRadPoint ==
    /\ pm < Len(inp.mant)
    /\ NextMant.op = "rad"
    /\ Accumulate
    /\ parser' = number_parser_set_rad_point(parser)
    /\ pm' = pm + 1
    /\ UNCHANGED <<pe, ps, px, ndig, dval>>

AddExpDigit ==
    /\ pe < Len(inp.exps)
    /\ Accumulate
    /\ parser' = number_parser_add_exp_digit(parser, inp.exps[pe + 1])
    /\ pe' = pe + 1
    /\ UNCHANGED <<pm, ps, px, ndig, dval>>

SetNeg ==
    /\ ps < Len(inp.negs)
    /\ Accumulate
    /\ parser' = number_parser_set_neg(parser, inp.negs[ps + 1])
    /\ ps' = ps + 1
    /\ UNCHANGED <<pm, pe, px, ndig, dval>>

SetExpNeg ==
    /\ px < Len(inp.xnegs)
    /\ Accumulate
    /\ parser' = number_parser_set_exp_neg(parser, inp.xnegs[px + 1])
    /\ px' = px + 1
    /\ UNCHANGED <<pm, pe, ps, ndig, dval>>

End ==
    /\ nend < MaxEnd
    /\ parser' = number_parser_end(parser)
    /\ ret' = parser'.is_float
    /\ nend' = nend + 1
    /\ lastEnd' = TRUE
    /\ UNCHANGED <<inp, pm, pe, ps, px, post, ndig, dval>>

Next ==
    \/ AddDigit
    \/ AddLeadingZeros
    \/ SetRadPoint
    \/ AddExpDigit
    \/ SetNeg
    \/ SetExpNeg
    \/ End

Spec == Init /\ [][Next]_vars

(***************************************************************************)
(* What the calls made so far amount to, read off the caller's position.   *)
(***************************************************************************)
\* number_parser_set_rad_point was called
RadCalled == \E i \in 1..pm : inp.mant[i].op = "rad"

\* number_parser_add_exp_digit was called
ExpCalled == pe > 0

DigitsOnly == ~RadCalled /\ ~ExpCalled

\* the mantissa sign last written by number_parser_set_neg
FinalSign == IF ps = 0 THEN 0 ELSE IF inp.negs[ps] # 0 THEN 1 ELSE 0

\* number_parser_end was called once, as the last call
FirstEnd == nend = 1 /\ lastEnd

TwoPow63 == BPow2(63)

\* the signed value of the digits is in [-2^63, 2^63 - 1]
InInt64Range ==
    IF FinalSign = 1 THEN BCmp(dval, TwoPow63) <= 0 ELSE BCmp(dval, TwoPow63) < 0

\* that signed value, as ival gives it
SignedValue == [neg |-> FinalSign = 1 /\ dval # <<>>, mag |-> dval]

\* ival or fval, whichever number_parser_end's return value selects
ResultValue(p) == IF p.is_float = 1 THEN fval(p) ELSE ival(p)

(***************************************************************************)
(* Integers                                                                *)
(***************************************************************************)
\* C1, for sequences of at most 32767 digits: after digits only,
\* whose signed value is in [-2^63, 2^63 - 1], number_parser_end returns 0
\* and ival is that value.
C1_IntegerExact ==
    (FirstEnd /\ DigitsOnly /\ InInt64Range /\ ndig <= INT16_MAX)
        => (ret = 0 /\ ival(parser) = SignedValue)

\* C1 for sequences of any length
C1_AnyLength ==
    (FirstEnd /\ DigitsOnly /\ InInt64Range)
        => (ret = 0 /\ ival(parser) = SignedValue)

\* -2^63 was parsed
C1_Witness ==
    /\ FirstEnd /\ DigitsOnly /\ FinalSign = 1 /\ dval = TwoPow63
    /\ ret = 0 /\ ival(parser) = [neg |-> TRUE, mag |-> TwoPow63]

\* C2: once number_parser_set_rad_point or number_parser_add_exp_digit was
\* called, every number_parser_end returns 1.
C2_RadOrExpIsFloat == (lastEnd /\ (RadCalled \/ ExpCalled)) => ret = 1

\* an exponent digit alone, on a one-digit mantissa
C2_Witness == FirstEnd /\ ExpCalled /\ ~RadCalled /\ ndig = 1 /\ ret = 1

\* C3, for sequences of at most 32767 digits: after digits only, whose
\* signed value is outside [-2^63, 2^63 - 1], number_parser_end returns 1.
C3_OutOfRangeIsFloat ==
    (FirstEnd /\ DigitsOnly /\ ~InInt64Range /\ ndig <= INT16_MAX) => ret = 1

\* C3 for sequences of any length
C3_AnyLength == (FirstEnd /\ DigitsOnly /\ ~InInt64Range) => ret = 1

\* 2^63 with a non-negative sign was parsed
C3_Witness ==
    FirstEnd /\ DigitsOnly /\ FinalSign = 0 /\ dval = TwoPow63 /\ ret = 1

(***************************************************************************)
(* Order of the calls                                                      *)
(***************************************************************************)
\* events i..j of the mantissa stream, applied in order (split in halves, and
\* reading p first, so that the evaluation stays shallow)
RECURSIVE ReplayMant(_, _, _, _)
ReplayMant(p, evs, i, j) ==
    IF p.int_len < 0 \/ i > j THEN p
    ELSE IF i < j
    THEN ReplayMant(ReplayMant(p, evs, i, (i + j) \div 2), evs, (i + j) \div 2 + 1, j)
    ELSE IF evs[i].op = "digit" THEN number_parser_add_digit(p, evs[i].d)
    ELSE IF evs[i].op = "rad" THEN number_parser_set_rad_point(p)
    ELSE AddDigitRun(p, 0, evs[i].d)

\* exponent digits i..j, applied in order
RECURSIVE ReplayExp(_, _, _, _)
ReplayExp(p, ds, i, j) ==
    IF p.int_len < 0 \/ i > j THEN p
    ELSE IF i < j
    THEN ReplayExp(ReplayExp(p, ds, i, (i + j) \div 2), ds, (i + j) \div 2 + 1, j)
    ELSE number_parser_add_exp_digit(p, ds[i])

\* the calls made so far, group after group: the mantissa stream, the
\* exponent digits, the last set_neg, the last set_exp_neg
Grouped ==
    LET a == ReplayMant(number_parser_init(inp.base), inp.mant, 1, pm)
        b == ReplayExp(a, inp.exps, 1, pe)
        c == IF ps > 0 THEN number_parser_set_neg(b, inp.negs[ps]) ELSE b
    IN  IF px > 0 THEN number_parser_set_exp_neg(c, inp.xnegs[px]) ELSE c

\* the digits of the input are written out one by one
ListedDigits == \A i \in 1..Len(inp.mant) : inp.mant[i].op # "zeros"

\* C4: however the four groups of calls were interleaved, the accumulator
\* is the one that the calls made group after group reach, and
\* number_parser_end then gives the same kind and value.
C4_OrderIndependent ==
    ListedDigits =>
        /\ nend = 0 => parser = Grouped
        /\ FirstEnd => (parser = number_parser_end(Grouped) /\ ret = parser.is_float)

\* all four groups took part, a sign was written twice
C4_Witness ==
    /\ FirstEnd /\ ListedDigits /\ RadCalled /\ ExpCalled /\ ps = 2 /\ px = 2
    /\ ndig >= 2 /\ ret = 1

(***************************************************************************)
(* number_parser_end twice                                                 *)
(***************************************************************************)
\* n as number_parser_end computes it from the fields
EffExp ==
    (IF parser.exp_sign = 1 THEN -parser.exp_val ELSE parser.exp_val)
        - (IF parser.rad_off >= 0 THEN parser.int_len - parser.rad_off ELSE 0)

\* a number_parser_end step that follows a number_parser_end step
SecondEnd == lastEnd /\ nend' = nend + 1

\* C5 (as stated): a second number_parser_end returns the same kind and
\* leaves the same value.
C5_SameResult ==
    [][SecondEnd => (ret' = ret /\ ResultValue(parser') = ResultValue(parser))]_vars

\* C5 (amended): a second number_parser_end returns the same kind; it leaves
\* the same value if the mantissa sign is clear and the result is an integer
\* or the effective exponent is 0.
C5_SameKind ==
    [][SecondEnd =>
        /\ ret' = ret
        /\ (parser.sign = 0 /\ (parser.is_float = 0 \/ EffExp = 0))
               => ResultValue(parser') = ResultValue(parser)]_vars

\* number_parser_end was called twice in a row on a positive integer
C5_Witness ==
    /\ nend = 2 /\ post = 0 /\ lastEnd
    /\ parser.sign = 0 /\ ret = 0 /\ dval # <<>> /\ ival(parser).mag = dval

(***************************************************************************)
(* The floating-point value                                                *)
(***************************************************************************)
\* b^k
RECURSIVE BPow(_, _)
BPow(b, k) ==
    IF k = 0 THEN <<1>>
    ELSE LET h == BPow(b, k \div 2)
         IN  IF k % 2 = 1 THEN BMulSmall(BMul(h, h), b) ELSE BMul(h, h)

\* the integer x is a double
DExact(x) ==
    LET d == DFromNat(x)
    IN  d.k = "fin"
        /\ BCmp(IF d.e >= 0 THEN BShl(d.m, d.e) ELSE BShr(d.m, -d.e), x) = 0

\* the double x is exactly (-1)^s * M * P (or, if down, (-1)^s * M / P)
DIsExactly(x, s, M, P, down) ==
    /\ x.k = "fin"
    /\ IF M = <<>> THEN x.m = <<>>
       ELSE /\ x.m # <<>>
            /\ x.s = s
            /\ IF down
               THEN IF x.e >= 0 THEN BCmp(BMul(BShl(x.m, x.e), P), M) = 0
                    ELSE BCmp(BMul(x.m, P), BShl(M, -x.e)) = 0
               ELSE IF x.e >= 0 THEN BCmp(BShl(x.m, x.e), BMul(M, P)) = 0
                    ELSE BCmp(x.m, BShl(BMul(M, P), -x.e)) = 0

\* the double nearest to (-1)^s * M * P (or, if down, (-1)^s * M / P)
DNearest(s, M, P, down) ==
    IF M = <<>> THEN DZero(s)
    ELSE IF ~down THEN DRound(s, BMul(M, P), 0, FALSE)
    ELSE LET sh == DBL_MANT_DIG + 2 + BBitLen(P)
             qr == BDivMod(BShl(M, sh), P)
         IN  DRound(s, qr[1], -sh, qr[2] # <<>>)

AbsExp == IF EffExp < 0 THEN -EffExp ELSE EffExp

\* base^|n| >= 2^ExpBits
ExpBits == AbsExp * (BitLenSmall(parser.base) - 1)

\* b without its factors 2
RECURSIVE OddPart(_)
OddPart(b) == IF b % 2 = 0 THEN OddPart(b \div 2) ELSE b

\* necessary for base^|n| to be a double: it is below 2^1024 if the base is a
\* power of two, and else the power of the odd part of the base has at most
\* 53 bits
PowerMayBeDouble ==
    IF OddPart(parser.base) = 1 THEN ExpBits < DBL_MAX_EXP
    ELSE AbsExp * (BitLenSmall(OddPart(parser.base)) - 1) < DBL_MANT_DIG

\* base^|n|
Power ==
    IF OddPart(parser.base) = 1 THEN BPow2(ExpBits) ELSE BPow(parser.base, AbsExp)

\* the first number_parser_end, on a mantissa that add_digit kept an integer,
\* with a floating-point result
FirstEndFloat ==
    nend = 0 /\ nend' = 1 /\ parser.is_float = 0 /\ parser'.is_float = 1

\* C6 (as stated), where M and base^|n| are doubles and exp_val is not
\* negative: the value is exactly s * M * base^n, or s * M / base^(-n) if
\* n < 0.
C6_ExactValue ==
    [][(/\ FirstEndFloat
        /\ parser.exp_val >= 0
        /\ PowerMayBeDouble
        /\ DExact(uval(parser))
        /\ DExact(Power))
        => DIsExactly(fval(parser'), parser.sign, uval(parser),
                      Power, EffExp < 0)]_vars

\* C6 (amended): if M and base^|n| are doubles, the value is the double
\* nearest to s * M * base^n, or, if n < 0 or exp_sign is set, to
\* s * M / base^|n|.
C6_NearestValue ==
    [][(/\ FirstEndFloat
        /\ PowerMayBeDouble
        /\ DExact(uval(parser))
        /\ DExact(Power))
        => fval(parser') = DNearest(parser.sign, uval(parser),
                                    Power,
                                    EffExp < 0 \/ parser.exp_sign = 1)]_vars

\* the repository's test: exp-digit 4, digits 1 2, radix point, digit 3,
\* set_neg(1) gave -123000
C6_Witness ==
    /\ FirstEnd /\ inp.base = 10 /\ dval = BNat(123) /\ RadCalled /\ pe = 1
    /\ inp.exps[1] = 4 /\ FinalSign = 1
    /\ ret = 1 /\ fval(parser) = DNeg(DFromInt(123000))

\* C9 (as stated): the floating-point value number_parser_end leaves is
\* never NaN.
C9_NeverNaN == (FirstEnd /\ ret = 1) => fval(parser).k # "nan"

(***************************************************************************)
(* The length cap and the flags                                            *)
(***************************************************************************)
\* C7: at int_len = 32767 a number_parser_add_digit call changes no field of
\* the accumulator (so number_parser_end gives what it would have given).
C7_NoOpAtCap ==
    [][(parser.int_len = INT16_MAX /\ ndig' > ndig) => parser' = parser]_vars

\* a non-zero digit was passed at the cap
C7_Witness == parser.int_len = INT16_MAX /\ ndig > INT16_MAX /\ dval # <<>>

\* the mantissa overflowed: it became a double in number_parser_add_digit, or
\* in number_parser_end with neither radix point nor exponent
OverflowConverted == parser.is_float = 1 /\ (nend = 0 \/ DigitsOnly)

\* C8 (as stated): was_int is 1 if the mantissa overflowed into a double, 0
\* if the number is an integer.
C8_WasIntSet ==
    /\ OverflowConverted => parser.was_int = 1
    /\ parser.is_float = 0 => parser.was_int = 0

\* C10: no call takes is_float from 1 back to 0.
C10_FloatStays == [][parser.is_float = 1 => parser'.is_float = 1]_vars

\* a floating-point accumulator was ended and then fed again
C10_Witness == nend >= 1 /\ post >= 1 /\ parser.is_float = 1

(***************************************************************************)
(* The radix point                                                         *)
(***************************************************************************)
\* a number_parser_set_rad_point step
RadStep == pm' = pm + 1 /\ NextMant.op = "rad"

\* C11 (as stated): once rad_off is not -1, no call changes it.
C11_RadOffFrozen ==
    [][parser.rad_off # -1 => parser'.rad_off = parser.rad_off]_vars

\* C11 (amended): every number_parser_set_rad_point call, a second one
\* included, sets rad_off to the current int_len, and no other call changes
\* rad_off.
C11_RadOffLastCall ==
    [][IF RadStep THEN parser'.rad_off = parser.int_len
       ELSE parser'.rad_off = parser.rad_off]_vars

\* the radix point was set twice, with a digit in between
C11_Witness ==
    /\ \E i, j \in 1..pm : i < j /\ inp.mant[i].op = "rad" /\ inp.mant[j].op = "rad"
    /\ parser.rad_off = 2 /\ parser.int_len = 2

(***************************************************************************)
(* The integer mantissa                                                    *)
(***************************************************************************)
\* number_parser_add_digit calls among the first r events of the mantissa
\* stream (a run of zeros is the first event, if there is one)
DigitsUpTo(r) ==
    Cardinality({i \in 1..r : inp.mant[i].op = "digit"})
        + (IF r >= 1 /\ inp.mant[1].op = "zeros" THEN inp.mant[1].d ELSE 0)

\* the value of the digits among events i..pm that are within the first
\* 32767 digits, appended to v
RECURSIVE AcceptedFrom(_, _)
AcceptedFrom(i, v) ==
    IF Len(v) < 0 \/ i > pm THEN v
    ELSE IF inp.mant[i].op = "digit" /\ DigitsUpTo(i) <= INT16_MAX
    THEN AcceptedFrom(i + 1, BAdd(BMulSmall(v, inp.base), BNat(inp.mant[i].d)))
    ELSE AcceptedFrom(i + 1, v)

\* the integer that the accepted digits (the first 32767) denote
AcceptedValue == IF ndig <= INT16_MAX THEN dval ELSE AcceptedFrom(1, <<>>)

\* C12: before number_parser_end, while is_float = 0, uval is at most 2^63
\* and is the exact value of the digits accepted so far.
C12_ExactMantissa ==
    (nend = 0 /\ parser.is_float = 0)
        => (BCmp(uval(parser), TwoPow63) <= 0 /\ uval(parser) = AcceptedValue)

\* the integer mantissa is 2^63, the largest
C12_Witness ==
    nend = 0 /\ parser.is_float = 0 /\ dval = TwoPow63 /\ uval(parser) = TwoPow63

\* a number_parser_add_digit step
DigitStep == pm' = pm + 1 /\ NextMant.op = "digit"

\* old * base + digit, without wrap-around
Appended == BAdd(BMulSmall(uval(parser), parser.base), BNat(NextMant.d))

\* C13: below the cap, on an integer, number_parser_add_digit promotes if and
\* only if uval * base + digit > 2^63; otherwise uval becomes
\* uval * base + digit.
C13_PromoteWhenFull ==
    [][(DigitStep /\ parser.int_len < INT16_MAX /\ parser.is_float = 0) =>
        IF BCmp(Appended, TwoPow63) > 0 THEN parser'.is_float = 1
        ELSE parser'.is_float = 0 /\ uval(parser') = Appended]_vars

\* the last digit of 2^63 + 1 promoted
C13_Witness ==
    nend = 0 /\ DigitsOnly /\ parser.is_float = 1 /\ dval = BAdd(TwoPow63, <<1>>)

(***************************************************************************)
(* The exponent                                                            *)
(***************************************************************************)
\* a number_parser_add_exp_digit step
ExpStep == pe' = pe + 1

\* old * base + digit
ExpAppended == parser.exp_val * parser.base + inp.exps[pe + 1]

C15_ExpValInRange == parser.exp_val >= 0 /\ parser.exp_val <= INT16_MAX

(***************************************************************************)
(* What number_parser_end and number_parser_add_digit leave alone          *)
(***************************************************************************)
\* a number_parser_end step
EndStep == nend' = nend + 1

\* base, int_len, rad_off, exp_val, has_exp and sign are the same
SameButExpSign ==
    /\ parser'.base = parser.base /\ parser'.int_len = parser.int_len
    /\ parser'.rad_off = parser.rad_off /\ parser'.exp_val = parser.exp_val
    /\ parser'.has_exp = parser.has_exp /\ parser'.sign = parser.sign

\* C16 (as stated): number_parser_end leaves base, int_len, rad_off,
\* exp_val, has_exp, sign and exp_sign as they were.
C16_EndWritesValueOnly ==
    [][EndStep => (SameButExpSign /\ parser'.exp_sign = parser.exp_sign)]_vars

\* C16 (amended): number_parser_end leaves base, int_len, rad_off, exp_val,
\* has_exp and sign as they were, and sets exp_sign if the result is
\* floating-point and the effective exponent is negative.
C16_EndWritesExpSign ==
    [][EndStep =>
        /\ SameButExpSign
        /\ parser'.exp_sign =
               IF parser'.is_float = 1 /\ EffExp < 0 THEN 1 ELSE parser.exp_sign]_vars

\* number_parser_end set exp_sign although set_exp_neg was never called
C16_Witness == FirstEnd /\ px = 0 /\ parser.exp_sign = 1 /\ ret = 1

\* C17: int_len is in [0, 32767]; a number_parser_add_digit call adds 1 to
\* it below 32767 and nothing at 32767; no other call changes it.
C17_IntLenCounts ==
    [][/\ parser'.int_len >= 0 /\ parser'.int_len <= INT16_MAX
       /\ parser'.int_len >= parser.int_len
       /\ parser'.int_len - parser.int_len =
              IF ndig' - ndig < INT16_MAX - parser.int_len THEN ndig' - ndig
              ELSE INT16_MAX - parser.int_len]_vars

\* the digit that promoted was counted
C17_Witness ==
    /\ nend = 0 /\ DigitsOnly /\ parser.is_float = 1
    /\ dval = BAdd(TwoPow63, <<1>>) /\ parser.int_len = ndig

(***************************************************************************)
(* The power loop                                                          *)
(***************************************************************************)
\* e when the loop of number_parser_end exits, were it called now
LoopPower == end_power(AbsExp, DFromInt(parser.base), DFromInt(1))

\* C18 (as stated): the loop ends with e = base^n exactly (which requires base^n to be a
\* double).
C18_PowerExact ==
    /\ PowerMayBeDouble
    /\ DIsExactly(LoopPower, 0, <<1>>, Power, FALSE)

\* C18 (amended): the loop ends, with e a positive double or +infinity, and
\* e = base^n if base^n is a double.
C18_PowerExactIfDouble ==
    /\ LoopPower.k \in {"fin", "inf"} /\ LoopPower.s = 0 /\ ~DIsZero(LoopPower)
    /\ (PowerMayBeDouble /\ DExact(Power))
           => LoopPower = DFromNat(Power)

\* 10^10, from the exponent -5 and five fractional digits
C18_Witness ==
    /\ inp.base = 10 /\ EffExp = -10 /\ nend = 0
    /\ LoopPower = DFromNat(BPow(10, 10))

(***************************************************************************)
(* The fractional digits                                                   *)
(***************************************************************************)
\* the last number_parser_set_rad_point among the events made (0: none)
LastRad ==
    IF RadCalled
    THEN CHOOSE i \in 1..pm :
             inp.mant[i].op = "rad" /\ \A j \in (i + 1)..pm : inp.mant[j].op # "rad"
    ELSE 0

\* the first r events of the mantissa stream hold this many accepted digits
AcceptedUpTo(r) == IF DigitsUpTo(r) < INT16_MAX THEN DigitsUpTo(r) ELSE INT16_MAX

\* C19: -1 <= rad_off <= int_len, and if the radix point is set,
\* int_len - rad_off is the number of digits accepted since it was last set.
C19_RadOffWithinLen ==
    /\ -1 <= parser.rad_off /\ parser.rad_off <= parser.int_len
    /\ RadCalled =>
           /\ parser.rad_off >= 0
           /\ parser.int_len - parser.rad_off = AcceptedUpTo(pm) - AcceptedUpTo(LastRad)

\* five fractional digits
C19_Witness == RadCalled /\ parser.int_len - parser.rad_off = 5 /\ parser.rad_off = 1
====
